---- MODULE Spec2Model ----
(***************************************************************************)
(* Quotidian reel generator (src/generate.py): the puzzle layout, the      *)
(* per-column letter supply and the letter placement simulation of         *)
(* GameState (Spec), the frame timeline, encoding and cleanup of           *)
(* ReelGenerator.generate_video (SpecVideo), and the daily lookup of       *)
(* QuoteLibrary as main runs it (SpecLibrary).                             *)
(*                                                                         *)
(* video is the record of one generate_video call: its locals, the frames  *)
(* saved so far, and the PNG and WAV files in tmp.  lib is the record of   *)
(* one main run up to the call of generate_video.  Each specification      *)
(* leaves the records of the others idle.                                  *)
(*                                                                         *)
(* A Python str is modelled as a sequence of one-character strings.        *)
(* Python indices (rows, columns, supply indices) are kept 0-based as in   *)
(* the source; a TLA+ sequence is read at index + 1.                       *)
(***************************************************************************)
EXTENDS Integers, Sequences, FiniteSets, TLC

VARIABLES quote, rows, supply, letter_positions, placed_supply_letters,
          placed_count, used_supply_indices, pc, ret, rng, prev_supply,
          video, lib

vars == <<quote, rows, supply, letter_positions, placed_supply_letters,
          placed_count, used_supply_indices, pc, ret, rng, prev_supply,
          video, lib>>

(***************************************************************************)
(* Program constants                                                       *)
(***************************************************************************)
GRID_COLS == 12

PUNCTUATION_MARKS == {".", ",", "!", "?", ";", ":", "\"", "'"}

(***************************************************************************)
(* Bounds of the model                                                     *)
(***************************************************************************)
\* a quote text is made of at most MaxWords words of WordPool
MaxWords == 3
\* quote ids range over 0..MaxId
MaxId == 1
\* number of states of the stand-in for the library's random generator
RngMod == 8

(***************************************************************************)
(* Inputs: quote texts                                                     *)
(***************************************************************************)
Word13 == <<"A","B","C","D","E","F","G","H","I","J","K","L","M">>
Word14 == <<"A","B","C","D","E","F","G","H","I","J","K","L","M","N">>

\* the empty word gives leading, trailing and doubled spaces
WordPool ==
  { <<>>,
    <<"A">>,
    <<"B", ",">>,
    <<".">>,
    <<"A","B","C","D","E">>,
    <<"F","G">>,
    <<"A","B","A","B","A","B","A">>,
    Word13,
    Word14 }

RECURSIVE JoinWords(_)
\* ' '.join(ws)
JoinWords(ws) ==
  IF Len(ws) = 0 THEN <<>>
  ELSE IF Len(ws) = 1 THEN ws[1]
  ELSE ws[1] \o <<" ">> \o JoinWords(Tail(ws))

Texts == { JoinWords(ws) : ws \in UNION { [1..k -> WordPool] : k \in 0..MaxWords } }

Quotes == [id : 0..MaxId, text : Texts]

(***************************************************************************)
(* Python str helpers                                                      *)
(***************************************************************************)
RECURSIVE lstrip(_)
lstrip(s) == IF Len(s) > 0 /\ s[1] = " " THEN lstrip(Tail(s)) ELSE s

RECURSIVE rstrip(_)
rstrip(s) ==
  IF Len(s) > 0 /\ s[Len(s)] = " " THEN rstrip(SubSeq(s, 1, Len(s) - 1)) ELSE s

\* str.strip()
strip(s) == rstrip(lstrip(s))

\* the position of the j-th space of s
NthSpace(s, j) ==
  CHOOSE i \in 1..Len(s) :
    s[i] = " " /\ Cardinality({ x \in 1..i : s[x] = " " }) = j

\* str.split(' '): the pieces between the spaces; empty strings between
\* adjacent spaces are kept
split(s) ==
  LET n == Cardinality({ i \in 1..Len(s) : s[i] = " " })
  IN [j \in 1..(n + 1) |->
        SubSeq(s, IF j = 1 THEN 1 ELSE NthSpace(s, j - 1) + 1,
                  IF j = n + 1 THEN Len(s) ELSE NthSpace(s, j) - 1)]

\* str.replace(' ', '')
replace(s) == SelectSeq(s, LAMBDA ch : ch # " ")

\* Quote.answer
answer(text) ==
  LET t == strip(text)
  IN IF Len(t) > 0 /\ t[Len(t)] \in {".", "!", "?"}
     THEN strip(SubSeq(t, 1, Len(t) - 1))
     ELSE t

(***************************************************************************)
(* GameState._build_grid                                                   *)
(***************************************************************************)
\* the wrap test of step 1: does the word still go on the current line
Fits(current_length, space_cost, word_cost) ==
  current_length + space_cost + word_cost <= GRID_COLS

\* one pass of the loop over words (step 1)
LineStep(st, word) ==
  IF Len(word) = 0 THEN st
  ELSE LET space_cost == IF Len(st.current_line) > 0 THEN 1 ELSE 0
           word_cost  == Len(word)
       IN IF Fits(st.current_length, space_cost, word_cost)
          THEN [lines          |-> st.lines,
                current_line   |-> (IF Len(st.current_line) > 0
                                    THEN Append(st.current_line, "#")
                                    ELSE st.current_line) \o word,
                current_length |-> st.current_length + space_cost + word_cost]
          ELSE [lines          |-> Append(st.lines, st.current_line),
                current_line   |-> word,
                current_length |-> word_cost]

RECURSIVE LineLoop(_, _)
LineLoop(st, words) ==
  IF Len(words) = 0 THEN st ELSE LineLoop(LineStep(st, words[1]), Tail(words))

\* step 1: the lines of the puzzle text
BuildLines(puzzle_text) ==
  LET st == LineLoop([lines |-> <<>>, current_line |-> <<>>, current_length |-> 0],
                     split(puzzle_text))
  IN IF Len(st.current_line) > 0 THEN Append(st.lines, st.current_line) ELSE st.lines

\* LeftPad rounding up: the extra filler cell on the left
LeftPad_RoundedUp(line_chars) == (GRID_COLS - Len(line_chars) + 1) \div 2

\* left_pad = empty_spots // 2 (floor division)
LeftPad(line_chars) == (GRID_COLS - Len(line_chars)) \div 2

BlockRow == [c \in 1..GRID_COLS |-> "#"]

RECURSIVE SetCells(_, _, _, _)
\* row[left_pad + i] = char for i = 0, 1, ...: a negative index counts from the
\* end of the list, an index outside -GRID_COLS..GRID_COLS-1 raises IndexError
SetCells(row, line_chars, left_pad, i) ==
  IF i >= Len(line_chars) THEN [raised |-> FALSE, row |-> row]
  ELSE LET k  == left_pad + i
           kk == IF k < 0 THEN k + GRID_COLS ELSE k
       IN IF kk < 0 \/ kk >= GRID_COLS
          THEN [raised |-> TRUE, row |-> row]
          ELSE SetCells([row EXCEPT ![kk + 1] = line_chars[i + 1]],
                        line_chars, left_pad, i + 1)

\* step 2 for one line: the centered row
CenterRow(line_chars) == SetCells(BlockRow, line_chars, LeftPad(line_chars), 0)

RECURSIVE RowLoop(_, _)
RowLoop(lines, acc) ==
  IF Len(lines) = 0 THEN [raised |-> FALSE, rows |-> acc]
  ELSE LET r == CenterRow(lines[1])
       IN IF r.raised THEN [raised |-> TRUE, rows |-> acc]
          ELSE RowLoop(Tail(lines), Append(acc, r.row))

\* _build_grid: the rows, or IndexError raised
_build_grid(text) == RowLoop(BuildLines(answer(text)), <<>>)

(***************************************************************************)
(* The process-wide generator of the random library.  The library is not   *)
(* part of the repository: it is modelled by what the code relies on, a    *)
(* generator whose draws are a function of its state, which seed() sets    *)
(* from its argument alone and every draw advances.                        *)
(***************************************************************************)
\* random.seed(a): the state afterwards
seed(a) == a % RngMod

\* the state after one draw
NextRng(s) == (5 * s + 3) % RngMod

\* the draw in 0..n-1 made in state s
randbelow(s, n) == s % n

Swap(x, i, j) == [x EXCEPT ![i + 1] = x[j + 1], ![j + 1] = x[i + 1]]

RECURSIVE ShuffleFrom(_, _, _)
\* for i in reversed(range(1, len(x))): j = randbelow(i + 1); x[i], x[j] = x[j], x[i]
ShuffleFrom(x, i, s) ==
  IF i < 1 THEN [x |-> x, rng |-> s]
  ELSE ShuffleFrom(Swap(x, i, randbelow(s, i + 1)), i - 1, NextRng(s))

\* random.shuffle(x) in generator state s: the shuffled list and the state afterwards
shuffle(x, s) == ShuffleFrom(x, Len(x) - 1, s)

(***************************************************************************)
(* GameState._build_supply                                                 *)
(***************************************************************************)
\* IsLetter with the punctuation test forgotten
IsLetter_NoPunctuationTest(char) == char # "#"

\* a cell that goes into the supply (and into letter_positions)
IsLetter(char) == char # "#" /\ char \notin PUNCTUATION_MARKS

RECURSIVE ColumnLetters(_, _)
\* the letters of column c (0-based), rows scanned top to bottom
ColumnLetters(rs, c) ==
  IF Len(rs) = 0 THEN <<>>
  ELSE (IF IsLetter(rs[1][c + 1]) THEN <<rs[1][c + 1]>> ELSE <<>>)
       \o ColumnLetters(Tail(rs), c)

\* the supply before the shuffle
UnshuffledSupply(rs) == [c \in 1..GRID_COLS |-> ColumnLetters(rs, c - 1)]

\* SeedFor with the random.seed call left out
SeedFor_NotSeeded(id, s) == s

\* the generator state the shuffles start from: random.seed(self.quote.id)
SeedFor(id, s) == seed(id)

RECURSIVE ShuffleColumns(_, _, _)
\* for col in self.supply: random.shuffle(col), columns 0, 1, ... on one stream
ShuffleColumns(sup, c, s) ==
  IF c >= GRID_COLS THEN [supply |-> sup, rng |-> s]
  ELSE LET r == shuffle(sup[c + 1], s)
       IN ShuffleColumns([sup EXCEPT ![c + 1] = r.x], c + 1, r.rng)

\* _build_supply in generator state s: the supply and the generator state afterwards
_build_supply(rs, id, s) == ShuffleColumns(UnshuffledSupply(rs), 0, SeedFor(id, s))

(***************************************************************************)
(* GameState._build_letter_positions                                       *)
(***************************************************************************)
RECURSIVE ScanCols(_, _, _, _, _)
\* for col in range(GRID_COLS): acc is letter_positions so far
ScanCols(row, r, c, limit, acc) ==
  IF c >= GRID_COLS THEN acc
  ELSE IF IsLetter(row[c + 1]) /\ Len(acc) < limit
  THEN ScanCols(row, r, c + 1, limit, Append(acc, <<r, c>>))
  ELSE ScanCols(row, r, c + 1, limit, acc)

RECURSIVE ScanRows(_, _, _, _)
\* for row in range(len(self.rows))
ScanRows(rs, r, limit, acc) ==
  IF r >= Len(rs) THEN acc
  ELSE ScanRows(rs, r + 1, limit, ScanCols(rs[r + 1], r, 0, limit, acc))

_build_letter_positions(rs, text) ==
  ScanRows(rs, 0, Len(replace(answer(text))), <<>>)

(***************************************************************************)
(* State machine                                                           *)
(*   pc = "new"    : no GameState yet (generate_video has not built it)    *)
(*   pc = "built"  : GameState(quote) returned                             *)
(*   pc = "raised" : an exception left the constructor or a step           *)
(* ret is what the last place_next_letter() call returned; prev_supply is  *)
(* the supply of the previous construction for the same quote (<<>>: none) *)
(***************************************************************************)
EmptySupply == [c \in 1..GRID_COLS |-> <<>>]

\* the fields of the GameState object
Self ==
  [quote |-> quote, rows |-> rows, supply |-> supply,
   letter_positions |-> letter_positions,
   placed_supply_letters |-> placed_supply_letters,
   placed_count |-> placed_count,
   used_supply_indices |-> used_supply_indices]

\* no generate_video run and no QuoteLibrary in this specification
NoVideo == [pc |-> "off"]
NoLib == [pc |-> "off"]

Init ==
  /\ quote \in Quotes
  /\ rows = <<>>
  /\ supply = EmptySupply
  /\ letter_positions = <<>>
  /\ placed_supply_letters = <<>>
  /\ placed_count = 0
  /\ used_supply_indices = <<>>
  /\ pc = "new"
  /\ ret = "none"
  /\ rng = 0
  /\ prev_supply = <<>>
  /\ video = NoVideo
  /\ lib = NoLib

\* any other user of the process-wide generator draws from it
RandomUse ==
  /\ pc = "new"
  /\ rng' = NextRng(rng)
  /\ UNCHANGED <<quote, rows, supply, letter_positions, placed_supply_letters,
                 placed_count, used_supply_indices, pc, ret, prev_supply,
                 video, lib>>

\* GameState(q) built in generator state s: the object (or IndexError raised)
\* and the generator state afterwards
NewGameState(q, s) ==
  LET g == _build_grid(q.text)
      fresh == [quote |-> q, rows |-> g.rows, supply |-> EmptySupply,
                letter_positions |-> <<>>, placed_supply_letters |-> <<>>,
                placed_count |-> 0, used_supply_indices |-> <<>>]
  IN IF g.raised
     THEN [raised |-> TRUE, self |-> fresh, rng |-> s]
     ELSE LET b == _build_supply(g.rows, q.id, s)
          IN [raised |-> FALSE,
              self |-> [fresh EXCEPT
                          !.supply = b.supply,
                          !.letter_positions = _build_letter_positions(g.rows, q.text)],
              rng |-> b.rng]

\* GameState.__init__(quote)
GameState__init__ ==
  /\ pc = "new"
  /\ LET n == NewGameState(quote, rng)
     IN /\ pc' = IF n.raised THEN "raised" ELSE "built"
        /\ rows' = n.self.rows
        /\ supply' = n.self.supply
        /\ letter_positions' = n.self.letter_positions
        /\ placed_supply_letters' = n.self.placed_supply_letters
        /\ placed_count' = n.self.placed_count
        /\ used_supply_indices' = n.self.used_supply_indices
        /\ rng' = n.rng
  /\ UNCHANGED <<quote, ret, prev_supply, video, lib>>

\* AtEnd off by one
AtEnd_OffByOne(idx, positions) == idx > Len(positions)

\* the guard of place_next_letter (written twice in the source)
AtEnd(idx, positions) == idx >= Len(positions)

\* already_used that never finds an index used
already_used_Never(col, i, used) == FALSE

already_used(col, i, used) == \E k \in 1..Len(used) : used[k] = <<col, i>>

\* the supply indices the scan of column col may stop at
Candidates(col, letter, sup, used) ==
  { i \in 0..(Len(sup[col + 1]) - 1) :
      ~already_used(col, i, used) /\ sup[col + 1][i + 1] = letter }

\* FirstOf taking the last candidate
FirstOf_Last(S) == CHOOSE i \in S : \A j \in S : i >= j

\* the scan in index order stops at the first candidate
FirstOf(S) == CHOOSE i \in S : \A j \in S : i <= j

\* used_supply_indices after the scan for letter in column col
MarkUsed(col, letter, sup, used) ==
  LET S == Candidates(col, letter, sup, used)
  IN IF S = {} THEN used ELSE Append(used, <<col, FirstOf(S)>>)

\* NextCount counting a letter twice
NextCount_Twice(n) == n + 2

\* self.placed_count += 1
NextCount(n) == n + 1

\* the fields place_next_letter assigns once both guards are passed
PlaceFields(gs) ==
  LET answer_without_spaces == replace(answer(gs.quote.text))
      pos_idx == gs.placed_count
      col == gs.letter_positions[pos_idx + 1][2]
      correct_letter == answer_without_spaces[pos_idx + 1]
  IN [used_supply_indices |->
        (IF col < Len(gs.supply)
         THEN MarkUsed(col, correct_letter, gs.supply, gs.used_supply_indices)
         ELSE gs.used_supply_indices),
      placed_supply_letters |-> Append(gs.placed_supply_letters, correct_letter),
      placed_count |-> NextCount(gs.placed_count)]

\* letter_positions[pos_idx] or answer_without_spaces[pos_idx] raises IndexError
IndexOutOfRange(gs) ==
  \/ gs.placed_count >= Len(gs.letter_positions)
  \/ gs.placed_count >= Len(replace(answer(gs.quote.text)))

RemoveAt(seq, i) == SubSeq(seq, 1, i - 1) \o SubSeq(seq, i + 1, Len(seq))

\* PlaceStep that also takes the letter out of the supply column
PlaceStep_PopsSupply(gs) ==
  IF AtEnd(gs.placed_count, gs.letter_positions)
  THEN [self |-> gs, ret |-> "False", raised |-> FALSE]
  ELSE IF IndexOutOfRange(gs)
  THEN [self |-> gs, ret |-> "none", raised |-> TRUE]
  ELSE LET f == PlaceFields(gs)
           u == f.used_supply_indices
       IN [self |-> [gs EXCEPT
                       !.used_supply_indices = u,
                       !.placed_supply_letters = f.placed_supply_letters,
                       !.placed_count = f.placed_count,
                       !.supply = IF Len(u) > Len(gs.used_supply_indices)
                                  THEN [gs.supply EXCEPT ![u[Len(u)][1] + 1] =
                                          RemoveAt(@, u[Len(u)][2] + 1)]
                                  ELSE gs.supply],
           ret |-> "True", raised |-> FALSE]

\* one place_next_letter() call on the object gs: the object afterwards, the
\* value returned and whether the call raised
PlaceStep(gs) ==
  IF AtEnd(gs.placed_count, gs.letter_positions)
     \/ AtEnd(gs.placed_count, gs.letter_positions)
  THEN [self |-> gs, ret |-> "False", raised |-> FALSE]
  ELSE IF IndexOutOfRange(gs)
  THEN [self |-> gs, ret |-> "none", raised |-> TRUE]
  ELSE LET f == PlaceFields(gs)
       IN [self |-> [gs EXCEPT
                       !.used_supply_indices = f.used_supply_indices,
                       !.placed_supply_letters = f.placed_supply_letters,
                       !.placed_count = f.placed_count],
           ret |-> "True", raised |-> FALSE]

\* GameState.place_next_letter()
place_next_letter ==
  /\ pc = "built"
  /\ LET r == PlaceStep(Self)
     IN /\ quote' = r.self.quote
        /\ rows' = r.self.rows
        /\ supply' = r.self.supply
        /\ letter_positions' = r.self.letter_positions
        /\ placed_supply_letters' = r.self.placed_supply_letters
        /\ placed_count' = r.self.placed_count
        /\ used_supply_indices' = r.self.used_supply_indices
        /\ ret' = r.ret
        /\ pc' = IF r.raised THEN "raised" ELSE pc
  /\ UNCHANGED <<rng, prev_supply, video, lib>>

\* GameState.get_letter_at_position(row, col): the placed letter, "" for None
get_letter_at_position(gs, row, col) ==
  LET found == { k \in 1..Len(gs.letter_positions) :
                   gs.letter_positions[k] = <<row, col>> }
  IN IF found = {} THEN ""
     ELSE LET idx == (CHOOSE k \in found : \A j \in found : k <= j) - 1
          IN IF idx < gs.placed_count /\ idx < Len(gs.placed_supply_letters)
             THEN gs.placed_supply_letters[idx + 1]
             ELSE ""

\* generate_video is run once more for the same quote: the old GameState is dropped
NewRun ==
  /\ pc = "built"
  /\ prev_supply = <<>>
  /\ prev_supply' = supply
  /\ pc' = "new"
  /\ rows' = <<>>
  /\ supply' = EmptySupply
  /\ letter_positions' = <<>>
  /\ placed_supply_letters' = <<>>
  /\ placed_count' = 0
  /\ used_supply_indices' = <<>>
  /\ ret' = "none"
  /\ UNCHANGED <<quote, rng, video, lib>>

Next == RandomUse \/ GameState__init__ \/ place_next_letter \/ NewRun

Spec == Init /\ [][Next]_vars

(***************************************************************************)
(* ReelGenerator.generate_video                                            *)
(*                                                                         *)
(* Durations are in milliseconds.  The source computes them in binary      *)
(* floating point; the model computes them exactly, a quotient kept as a   *)
(* fraction [n, d], so a frame count is the floor of the exact product.    *)
(* (In floating point 0.2 + 15 * 0.12 is just below 2.0, so the source     *)
(* gets 59 placement frames for 15 letters where the exact value is 60.)   *)
(***************************************************************************)
FPS == 30
pause_before_start == 200
max_solve_time == 7000
max_time_per_letter == 120
reveal_fade_duration == 1000
reveal_hold_fallback == 1000

\* the answers of the video runs have up to MaxVideoWords five-letter words
\* (from 103 letters on a frame's target can be two above the previous one)
MaxVideoWords == 21

Max(a, b) == IF a >= b THEN a ELSE b
Min(a, b) == IF a <= b THEN a ELSE b

\* FracMin taking the larger one
FracMin_Larger(a, b) == IF b.n * a.d > a.n * b.d THEN b ELSE a

\* min(a, b) of two fractions (the first one when they are equal)
FracMin(a, b) == IF b.n * a.d < a.n * b.d THEN b ELSE a

Zero == [n |-> 0, d |-> 1]

\* time_per_letter, lines 715-719
time_per_letter(total_letters) ==
  IF total_letters > 0
  THEN LET available == Max(0, max_solve_time - pause_before_start)
       IN IF available > 0
          THEN FracMin([n |-> available, d |-> total_letters],
                       [n |-> max_time_per_letter, d |-> 1])
          ELSE Zero
  ELSE Zero

\* solve_duration = pause_before_start + total_letters * time_per_letter
solve_duration(total_letters, tpl) ==
  [n |-> pause_before_start * tpl.d + total_letters * tpl.n, d |-> tpl.d]

\* int(duration * FPS) for a duration in milliseconds
FrameCount(duration) == (duration.n * FPS) \div (duration.d * 1000)

\* _get_audio_duration: None (-1) when the file is missing or cannot be probed
_get_audio_duration(asset) == IF asset.exists THEN asset.probed ELSE -1

\* reveal_hold_duration, lines 725-729
reveal_hold_duration(win_fanfare_duration) ==
  IF win_fanfare_duration # -1
  THEN Max(0, win_fanfare_duration - reveal_fade_duration)
  ELSE reveal_hold_fallback

\* target_placed counting the elapsed time from frame 0, without the pause
target_placed_NoPause(frame, solve_frames, total_letters, tpl) ==
  IF frame = solve_frames - 1 THEN total_letters
  ELSE IF tpl.n > 0
  THEN Min(total_letters, (frame * 1000 * tpl.d) \div (FPS * tpl.n))
  ELSE 0

\* target_placed without the forced completion on the final frame
target_placed_NoForce(frame, solve_frames, total_letters, tpl) ==
  IF frame * 1000 > pause_before_start * FPS /\ tpl.n > 0
  THEN Min(total_letters,
           ((frame * 1000 - pause_before_start * FPS) * tpl.d) \div (FPS * tpl.n))
  ELSE 0

\* target_placed for a frame of phase 1, lines 747-755
target_placed(frame, solve_frames, total_letters, tpl) ==
  IF frame = solve_frames - 1 THEN total_letters
  ELSE IF frame * 1000 > pause_before_start * FPS /\ tpl.n > 0
  THEN Min(total_letters,
           ((frame * 1000 - pause_before_start * FPS) * tpl.d) \div (FPS * tpl.n))
  ELSE 0

\* PlaceUntil with an if in place of the while: one call per frame at most
PlaceUntil_Once(gs, target) ==
  IF gs.placed_count < target
  THEN LET r == PlaceStep(gs)
       IN [self |-> r.self, raised |-> r.raised]
  ELSE [self |-> gs, raised |-> FALSE]

RECURSIVE PlaceUntil(_, _)
\* while state.placed_count < target_placed: if not place_next_letter(): break
PlaceUntil(gs, target) ==
  IF gs.placed_count < target
  THEN LET r == PlaceStep(gs)
       IN IF r.raised THEN [self |-> r.self, raised |-> TRUE]
          ELSE IF r.ret = "False" THEN [self |-> r.self, raised |-> FALSE]
          ELSE PlaceUntil(r.self, target)
  ELSE [self |-> gs, raised |-> FALSE]

\* the letter the renderer draws on the cell of the latest placed position
Drawn(gs) ==
  IF gs.placed_count = 0 \/ gs.placed_count > Len(gs.letter_positions) THEN ""
  ELSE get_letter_at_position(gs, gs.letter_positions[gs.placed_count][1],
                              gs.letter_positions[gs.placed_count][2])

\* what one saved frame shows: its file index, its phase, the target of a
\* phase 1 frame (-1 otherwise) and the state it was rendered from
Frame(index, phase, target, gs) ==
  [index |-> index, phase |-> phase, target |-> target,
   placed |-> gs.placed_count, drawn |-> Drawn(gs)]

\* the phase whose loop runs next, from phase p on: a range() of 0 frames is skipped
PhaseFrom(p, v) ==
  IF p <= 1 /\ v.solve_frames > 0 THEN "phase1"
  ELSE IF p <= 2 /\ v.reveal_fade_frames > 0 THEN "phase2"
  ELSE IF p <= 3 /\ v.reveal_hold_frames > 0 THEN "phase3"
  ELSE "encode"

\* frame_offset when phase p starts (frame_offset += ... after each loop)
OffsetAt(phase, v) ==
  IF phase = "phase1" THEN 0
  ELSE IF phase = "phase2" THEN v.solve_frames
  ELSE IF phase = "phase3" THEN v.solve_frames + v.reveal_fade_frames
  ELSE v.solve_frames + v.reveal_fade_frames + v.reveal_hold_frames

FiveLetters == <<"A","B","C","D","E">>

VideoTexts ==
  { JoinWords([k \in 1..n |-> FiveLetters]) : n \in 0..MaxVideoWords }
    \cup { <<"A">>, <<"B", ",", " ", "A", "C">>, Word14 }

\* the audio assets: present or not, and what probing the fanfare gives
AssetOptions ==
  { [letter_sfx |-> FALSE, win_fanfare |-> [exists |-> FALSE, probed |-> -1]],
    [letter_sfx |-> TRUE,  win_fanfare |-> [exists |-> TRUE,  probed |-> 3400]],
    [letter_sfx |-> FALSE, win_fanfare |-> [exists |-> TRUE,  probed |-> -1]],
    [letter_sfx |-> TRUE,  win_fanfare |-> [exists |-> TRUE,  probed |-> 1050]],
    [letter_sfx |-> FALSE, win_fanfare |-> [exists |-> TRUE,  probed |-> 500]] }

VideoInit ==
  /\ quote \in [id : {1}, text : VideoTexts]
  /\ rows = <<>>
  /\ supply = EmptySupply
  /\ letter_positions = <<>>
  /\ placed_supply_letters = <<>>
  /\ placed_count = 0
  /\ used_supply_indices = <<>>
  /\ pc = "new"
  /\ ret = "none"
  /\ rng = 0
  /\ prev_supply = <<>>
  /\ lib = NoLib
  /\ \E a \in AssetOptions :
       video = [pc |-> "start", assets |-> a, total_letters |-> 0,
                time_per_letter |-> Zero, solve_duration |-> Zero,
                reveal_hold_duration |-> 0,
                solve_frames |-> 0, reveal_fade_frames |-> 0,
                reveal_hold_frames |-> 0, total_frames |-> 0,
                frame_offset |-> 0, frame |-> 0, frames |-> <<>>,
                png |-> {}, wav |-> {}, error |-> "none"]

\* the GameState object becomes gs
SetSelf(gs) ==
  /\ rows' = gs.rows
  /\ supply' = gs.supply
  /\ letter_positions' = gs.letter_positions
  /\ placed_supply_letters' = gs.placed_supply_letters
  /\ placed_count' = gs.placed_count
  /\ used_supply_indices' = gs.used_supply_indices

\* generate_video up to the first loop: the GameState and the timing, lines 706-742
VideoSetup ==
  /\ video.pc = "start"
  /\ LET n == NewGameState(quote, rng)
         total_letters == Len(n.self.letter_positions)
         tpl == time_per_letter(total_letters)
         sd == solve_duration(total_letters, tpl)
         hold == reveal_hold_duration(_get_audio_duration(video.assets.win_fanfare))
         v == [video EXCEPT
                 !.total_letters = total_letters,
                 !.time_per_letter = tpl,
                 !.solve_duration = sd,
                 !.reveal_hold_duration = hold,
                 !.solve_frames = FrameCount(sd),
                 !.reveal_fade_frames = FrameCount([n |-> reveal_fade_duration, d |-> 1]),
                 !.reveal_hold_frames = FrameCount([n |-> hold, d |-> 1])]
         w == [v EXCEPT !.total_frames =
                 v.solve_frames + v.reveal_fade_frames + v.reveal_hold_frames]
     IN /\ SetSelf(n.self)
        /\ rng' = n.rng
        /\ pc' = IF n.raised THEN "raised" ELSE "built"
        /\ video' = IF n.raised
                    THEN [video EXCEPT !.pc = "raised", !.error = "IndexError"]
                    ELSE [w EXCEPT !.pc = PhaseFrom(1, w),
                                   !.frame_offset = OffsetAt(PhaseFrom(1, w), w),
                                   !.frame = 0]
  /\ UNCHANGED <<quote, ret, prev_supply, lib>>

\* the video record after the body of a loop saved frame f of its phase
AfterFrame(v, f, count, p) ==
  IF f + 1 < count
  THEN [v EXCEPT !.frame = f + 1]
  ELSE [v EXCEPT !.frame = 0, !.pc = PhaseFrom(p + 1, v),
                 !.frame_offset = OffsetAt(PhaseFrom(p + 1, v), v)]

\* one pass of the phase 1 loop, lines 746-767
PlacementFrame ==
  /\ video.pc = "phase1"
  /\ LET frame == video.frame
         target == target_placed(frame, video.solve_frames, video.total_letters,
                                 video.time_per_letter)
         r == PlaceUntil(Self, target)
         saved == [video EXCEPT
                     !.frames = Append(@, Frame(frame, "phase1", target, r.self)),
                     !.png = @ \cup {frame}]
     IN /\ SetSelf(r.self)
        /\ pc' = IF r.raised THEN "raised" ELSE pc
        /\ video' = IF r.raised
                    THEN [video EXCEPT !.pc = "raised", !.error = "IndexError"]
                    ELSE AfterFrame(saved, frame, video.solve_frames, 1)
  /\ UNCHANGED <<quote, ret, rng, prev_supply, lib>>

\* one pass of the phase 2 loop, lines 774-777
FadeFrame ==
  /\ video.pc = "phase2"
  /\ LET i == video.frame
         saved == [video EXCEPT
                     !.frames = Append(@, Frame(video.frame_offset + i, "phase2", -1, Self)),
                     !.png = @ \cup {video.frame_offset + i}]
     IN video' = AfterFrame(saved, i, video.reveal_fade_frames, 2)
  /\ UNCHANGED <<quote, rows, supply, letter_positions, placed_supply_letters,
                 placed_count, used_supply_indices, pc, ret, rng, prev_supply, lib>>

\* one pass of the phase 3 loop, lines 784-786
HoldFrame ==
  /\ video.pc = "phase3"
  /\ LET i == video.frame
         saved == [video EXCEPT
                     !.frames = Append(@, Frame(video.frame_offset + i, "phase3", -1, Self)),
                     !.png = @ \cup {video.frame_offset + i}]
     IN video' = AfterFrame(saved, i, video.reveal_hold_frames, 3)
  /\ UNCHANGED <<quote, rows, supply, letter_positions, placed_supply_letters,
                 placed_count, used_supply_indices, pc, ret, rng, prev_supply, lib>>

\* the WAV files _encode writes into tmp
EncodeWavs(assets) ==
  (IF assets.letter_sfx THEN {"letter.wav", "sfx.wav"} ELSE {})
    \cup (IF assets.win_fanfare.exists THEN {"win.wav"} ELSE {})

\* self._encode(...), lines 799-807 and 818-903: the encoder exits 0 or not
Encode ==
  /\ video.pc = "encode"
  /\ \E returncode \in {0, 1} :
       video' = IF returncode # 0
                THEN [video EXCEPT !.wav = @ \cup EncodeWavs(video.assets),
                                   !.pc = "failed",
                                   !.error = "RuntimeError: Encoding failed"]
                ELSE [video EXCEPT !.wav = @ \cup EncodeWavs(video.assets),
                                   !.pc = "cleanup"]
  /\ UNCHANGED <<quote, rows, supply, letter_positions, placed_supply_letters,
                 placed_count, used_supply_indices, pc, ret, rng, prev_supply, lib>>

\* the cleanup after a successful encode, lines 809-816
Cleanup ==
  /\ video.pc = "cleanup"
  /\ video' = [video EXCEPT !.png = {}, !.wav = {}, !.pc = "done"]
  /\ UNCHANGED <<quote, rows, supply, letter_positions, placed_supply_letters,
                 placed_count, used_supply_indices, pc, ret, rng, prev_supply, lib>>

VideoNext ==
  VideoSetup \/ PlacementFrame \/ FadeFrame \/ HoldFrame \/ Encode \/ Cleanup

SpecVideo == VideoInit /\ [][VideoNext]_vars

(***************************************************************************)
(* QuoteLibrary and main                                                   *)
(*                                                                         *)
(* A datetime is [day, hour]: day counts the days from EPOCH (negative      *)
(* before it).  quotes.json is missing or holds a list of quote records.   *)
(***************************************************************************)
LIBRARY_OFFSET == 0

\* quotes.json holds up to MaxQuotes quotes
MaxQuotes == 3
\* the clock of a run is within MaxDay days after EPOCH day 0 (and 2 before)
MaxDay == 4

QuotePool ==
  { [id |-> 1, text |-> <<"A">>, author |-> "X", source |-> "S"],
    [id |-> 2, text |-> <<"B", ",", " ", "A">>, author |-> "Y", source |-> "None"],
    [id |-> 3, text |-> <<"F", "G">>, author |-> "Z", source |-> "T"] }

Files ==
  { [exists |-> FALSE, data |-> <<>>] }
    \cup { [exists |-> TRUE, data |-> d] :
             d \in UNION { [1..k -> QuotePool] : k \in 0..MaxQuotes } }

Dates == [day : (0 - 2)..MaxDay, hour : {0, 23}]

\* date - timedelta(days=1)
DayBefore(date) == [date EXCEPT !.day = @ - 1]

\* (datetime(date.year, date.month, date.day) - epoch_midnight).days
days_since_epoch(date) == date.day

\* the index with one added before the modulo
DailyIndex_OneLater(days, n) == (days + LIBRARY_OFFSET + 1) % n

\* idx = (days_since_epoch + self.LIBRARY_OFFSET) % len(self.quotes)
DailyIndex(days, n) == (days + LIBRARY_OFFSET) % n

NoQuote == [id |-> 0, text |-> <<>>, author |-> "", source |-> "None"]

\* QuoteLibrary.get_daily_quote: the quote returned or the exception raised
get_daily_quote(quotes, date) ==
  LET days == days_since_epoch(date)
  IN IF days < 0
     THEN IF Len(quotes) = 0
          THEN [raised |-> "IndexError: list index out of range", quote |-> NoQuote]
          ELSE LET preview == quotes[Len(quotes)]
               IN [raised |-> "none",
                   quote |-> [id |-> 0, text |-> preview.text,
                              author |-> preview.author, source |-> preview.source]]
     ELSE IF Len(quotes) = 0
          THEN [raised |-> "ZeroDivisionError: integer modulo by zero", quote |-> NoQuote]
          ELSE LET idx == DailyIndex(days, Len(quotes))
                   q == quotes[idx + 1]
               IN [raised |-> "none",
                   quote |-> [id |-> idx + 1, text |-> q.text,
                              author |-> q.author, source |-> q.source]]

LibraryInit ==
  /\ quote = [id |-> 0, text |-> <<>>]
  /\ rows = <<>>
  /\ supply = EmptySupply
  /\ letter_positions = <<>>
  /\ placed_supply_letters = <<>>
  /\ placed_count = 0
  /\ used_supply_indices = <<>>
  /\ pc = "new"
  /\ ret = "none"
  /\ rng = 0
  /\ prev_supply = <<>>
  /\ video = NoVideo
  /\ \E f \in Files, now \in Dates :
       lib = [pc |-> "start", file |-> f, now |-> now, quotes |-> <<>>,
              result |-> NoQuote, error |-> "none"]

\* library = QuoteLibrary(): __init__ and _load_quotes, lines 57-71
QuoteLibrary__init__ ==
  /\ lib.pc = "start"
  /\ lib' = IF ~lib.file.exists
            THEN [lib EXCEPT
                    !.pc = "failed",
                    !.error = "FileNotFoundError: Run 'npm run export-quotes' from Quotidian directory first."]
            ELSE [lib EXCEPT !.pc = "loaded", !.quotes = lib.file.data]
  /\ UNCHANGED <<quote, rows, supply, letter_positions, placed_supply_letters,
                 placed_count, used_supply_indices, pc, ret, rng, prev_supply, video>>

\* quote = library.get_yesterday_quote(), lines 73-75 and 77-88
get_yesterday_quote ==
  /\ lib.pc = "loaded"
  /\ LET r == get_daily_quote(lib.quotes, DayBefore(lib.now))
     IN lib' = IF r.raised # "none"
               THEN [lib EXCEPT !.pc = "failed", !.error = r.raised]
               ELSE [lib EXCEPT !.pc = "picked", !.result = r.quote]
  /\ UNCHANGED <<quote, rows, supply, letter_positions, placed_supply_letters,
                 placed_count, used_supply_indices, pc, ret, rng, prev_supply, video>>

\* main hands the quote to generator.generate_video, lines 953-959
main_generate ==
  /\ lib.pc = "picked"
  /\ lib' = [lib EXCEPT !.pc = "generating"]
  /\ quote' = [id |-> lib.result.id, text |-> lib.result.text]
  /\ UNCHANGED <<rows, supply, letter_positions, placed_supply_letters,
                 placed_count, used_supply_indices, pc, ret, rng, prev_supply, video>>

LibraryNext == QuoteLibrary__init__ \/ get_yesterday_quote \/ main_generate

SpecLibrary == LibraryInit /\ [][LibraryNext]_vars

(***************************************************************************)
(* Notions the properties are stated in                                    *)
(***************************************************************************)
N == Len(letter_positions)

\* answer with spaces removed
AnswerLetters == replace(answer(quote.text))

\* the grid cell at a (row, col) pair
CellAt(pos) == rows[pos[1] + 1][pos[2] + 1]

\* a Letter cell: neither Block nor Punctuation
LetterCell(ch) == ch # "#" /\ ch \notin {".", ",", "!", "?", ";", ":", "\"", "'"}

Count(seq, ch) == Cardinality({ i \in 1..Len(seq) : seq[i] = ch })

\* column c (1-based) of the layout, top to bottom
ColumnOf(c) == [r \in 1..Len(rows) |-> rows[r][c]]

Chars == { quote.text[i] : i \in 1..Len(quote.text) }

NonBlockCells == Cardinality({ <<r, c>> \in (1..Len(rows)) \X (1..GRID_COLS) :
                               rows[r][c] # "#" })

\* a word of the answer is longer than a row
HasLongWord == \E k \in 1..Len(split(answer(quote.text))) :
                  Len(split(answer(quote.text))[k]) > GRID_COLS

\* the words of the answer are separated by single spaces
SingleSpaced == \A k \in 1..Len(split(answer(quote.text))) :
                   Len(split(answer(quote.text))[k]) > 0

RECURSIVE TrimBlocks(_)
\* a row without its leading and trailing Block cells
TrimBlocks(row) ==
  IF Len(row) = 0 THEN row
  ELSE IF row[1] = "#" THEN TrimBlocks(Tail(row))
  ELSE IF row[Len(row)] = "#" THEN TrimBlocks(SubSeq(row, 1, Len(row) - 1))
  ELSE row

\* the text of one row: Block cells between characters read as spaces
RowText(row) == [i \in 1..Len(TrimBlocks(row)) |->
                   IF TrimBlocks(row)[i] = "#" THEN " " ELSE TrimBlocks(row)[i]]

RECURSIVE ReadRows(_)
\* the rows read in row-major order, a row break read as the space it stands for
ReadRows(rs) ==
  IF Len(rs) = 0 THEN <<>>
  ELSE IF Len(rs) = 1 THEN RowText(rs[1])
  ELSE RowText(rs[1]) \o <<" ">> \o ReadRows(Tail(rs))

IsPrefix(s, t) == Len(s) <= Len(t) /\ SubSeq(t, 1, Len(s)) = s

(***************************************************************************)
(* Properties                                                              *)
(***************************************************************************)

\* C1: for every answer and every i < N the grid cell at letter_positions[i]
\* holds the character answer_without_spaces[i], so every letter recorded by
\* place_next_letter() is the character of the Letter cell it is placed on.
\* The code violates this: answer_without_spaces keeps the punctuation that
\* letter_positions skips (and the characters an over-long word loses).
C1_PositionsMatchAnswer ==
  pc = "built" =>
    /\ \A i \in 1..N : CellAt(letter_positions[i]) = AnswerLetters[i]
    /\ \A i \in 1..Len(placed_supply_letters) :
          placed_supply_letters[i] = CellAt(letter_positions[i])

\* C2: the letter to place is always found unused in its supply column, so
\* used_supply_indices has placed_count entries in every state and holds every
\* supply entry once all N letters are placed.
\* The code violates this as a consequence of C1.
C2_SupplyAlwaysFound ==
  pc = "built" =>
    /\ Len(used_supply_indices) = placed_count
    /\ placed_count = N =>
         \A c \in 1..GRID_COLS : \A i \in 1..Len(supply[c]) :
            \E k \in 1..Len(used_supply_indices) :
               used_supply_indices[k] = <<c - 1, i - 1>>

\* C3: a place_next_letter() call never decreases placed_count, changes it by
\* at most 1, and leaves it within 0..N.
C3_PlacedCountMonotone ==
  [][place_next_letter =>
       /\ placed_count' \in {placed_count, placed_count + 1}
       /\ placed_count' \in 0..Len(letter_positions')]_vars

C3_Witness == pc = "built" /\ ret = "True" /\ placed_count = N /\ N >= 2

\* C4: used_supply_indices never holds a (column, index) pair twice, every pair
\* names an existing entry of supply[column], and a place_next_letter() call
\* only appends to it.
C4_UsedSupplySound ==
  /\ [](pc = "built" =>
         /\ \A i, j \in 1..Len(used_supply_indices) :
               i # j => used_supply_indices[i] # used_supply_indices[j]
         /\ \A i \in 1..Len(used_supply_indices) :
               /\ used_supply_indices[i][1] \in 0..(GRID_COLS - 1)
               /\ used_supply_indices[i][2] \in
                    0..(Len(supply[used_supply_indices[i][1] + 1]) - 1))
  /\ [][place_next_letter =>
          IsPrefix(used_supply_indices, used_supply_indices')]_vars

\* two occurrences of one letter in one supply column are both consumed
C4_Witness ==
  /\ pc = "built"
  /\ \E i, j \in 1..Len(used_supply_indices) :
        /\ i # j
        /\ used_supply_indices[i][1] = used_supply_indices[j][1]
        /\ supply[used_supply_indices[i][1] + 1][used_supply_indices[i][2] + 1]
             = supply[used_supply_indices[j][1] + 1][used_supply_indices[j][2] + 1]

\* C5: when placed_count = N, place_next_letter() returns False and leaves
\* placed_count, used_supply_indices and the placed letters unchanged.
C5_TerminalNoOp ==
  [][(place_next_letter /\ placed_count = Len(letter_positions)) =>
       /\ ret' = "False"
       /\ pc' = "built"
       /\ UNCHANGED <<placed_count, used_supply_indices, placed_supply_letters>>]_vars

C5_Witness == pc = "built" /\ ret = "False" /\ placed_count = N /\ N > 0

\* C6: every row built by _build_grid has exactly GRID_COLS cells and holds at
\* least one non-Block cell (no row stands for an empty line).
\* The code violates the second part: a first word longer than GRID_COLS closes
\* the still empty current line.
C6_RowsWellFormed ==
  pc = "built" =>
    \A r \in 1..Len(rows) :
       /\ Len(rows[r]) = GRID_COLS
       /\ \E c \in 1..GRID_COLS : rows[r][c] # "#"

\* C7: an answer with a word longer than GRID_COLS is laid out without an
\* error and without losing any of its characters.
\* The code raises IndexError or overwrites the first character of the word.
C7_LongWordAccepted ==
  (pc # "new" /\ HasLongWord) =>
     /\ pc # "raised"
     /\ NonBlockCells = Len(AnswerLetters)

\* C8: reading the non-Block cells of all rows in row-major order, a Block
\* between two characters of a line (and a row break) read as a space,
\* reproduces the answer, for answers whose words are separated by single
\* spaces.  The code violates this for a word longer than GRID_COLS.
C8_GridRoundTrip ==
  (pc = "built" /\ SingleSpaced) => ReadRows(rows) = answer(quote.text)

\* C9: after construction, for every column the multiset of characters in
\* supply[c] is the multiset of the Letter cells of column c, and the supply
\* holds no Punctuation and no Block character.
C9_SupplyMatchesColumns ==
  pc = "built" =>
    \A c \in 1..GRID_COLS :
       /\ \A ch \in Chars \cup {"#"} :
             Count(supply[c], ch) = IF LetterCell(ch) THEN Count(ColumnOf(c), ch) ELSE 0
       /\ Len(supply[c]) = Cardinality({ r \in 1..Len(rows) : LetterCell(rows[r][c]) })

\* a layout with a Punctuation cell and a column holding several letters
C9_Witness ==
  /\ pc = "built"
  /\ \E r \in 1..Len(rows) : \E c \in 1..GRID_COLS : rows[r][c] = ","
  /\ \E c \in 1..GRID_COLS : Len(supply[c]) >= 2

\* C10: two constructions of GameState for the same quote id and text yield
\* the same supply, column by column, whatever was drawn from the generator
\* before or between them.
C10_SupplyDeterministic ==
  (pc = "built" /\ prev_supply # <<>>) => supply = prev_supply

\* a second construction whose shuffle reordered a column
C10_Witness ==
  /\ pc = "built"
  /\ prev_supply # <<>>
  /\ supply = prev_supply
  /\ \E c \in 1..GRID_COLS : supply[c] # ColumnLetters(rows, c - 1)

(***************************************************************************)
(* Notions of the placement step the properties are stated in              *)
(***************************************************************************)
\* the column and the character the next place_next_letter() call is about
TargetCol == letter_positions[placed_count + 1][2]
TargetLetter == AnswerLetters[placed_count + 1]

\* the unused entries of the target column that hold the target character
UnusedMatches ==
  { i \in 0..(Len(supply[TargetCol + 1]) - 1) :
      /\ supply[TargetCol + 1][i + 1] = TargetLetter
      /\ \A k \in 1..Len(used_supply_indices) :
            used_supply_indices[k] # <<TargetCol, i>> }

\* C14: a place_next_letter() step that finds no unused occurrence of the
\* target character gives the caller a signal that tells it from a step that
\* consumed a supply entry (which returns True without raising).
\* The code returns True in both cases and writes no log.
C14_MismatchSignalled ==
  [][(place_next_letter /\ placed_count < Len(letter_positions)
        /\ UnusedMatches = {})
       => ~(ret' = "True" /\ pc' = "built")]_vars

\* C19: with placed_count < N, a place_next_letter() call that finds no
\* unused entry equal to the target character does not raise, leaves
\* used_supply_indices unchanged, appends the target character to the placed
\* letters, adds 1 to placed_count and returns True; otherwise it marks the
\* lowest-index unused matching entry of the column and no other.
C19_MismatchStep ==
  [][(place_next_letter /\ placed_count < Len(letter_positions)) =>
       IF UnusedMatches = {}
       THEN /\ pc' = "built"
            /\ ret' = "True"
            /\ used_supply_indices' = used_supply_indices
            /\ placed_supply_letters' = Append(placed_supply_letters, TargetLetter)
            /\ placed_count' = placed_count + 1
       ELSE \E i \in UnusedMatches :
              /\ \A j \in UnusedMatches : i <= j
              /\ used_supply_indices' = Append(used_supply_indices, <<TargetCol, i>>)]_vars

\* a step has placed a letter without consuming a supply entry
C19_Witness ==
  /\ pc = "built"
  /\ ret = "True"
  /\ placed_count > Len(used_supply_indices)

(***************************************************************************)
(* Notions of the layout the properties are stated in                      *)
(***************************************************************************)
RECURSIVE SplitOn(_, _, _, _)
SplitOn(s, sep, cur, acc) ==
  IF Len(s) = 0 THEN Append(acc, cur)
  ELSE IF s[1] = sep THEN SplitOn(Tail(s), sep, <<>>, Append(acc, cur))
  ELSE SplitOn(Tail(s), sep, Append(cur, s[1]), acc)

\* the words of a line: its runs of characters between Block cells
LineWords(line) ==
  SelectSeq(SplitOn(line, "#", <<>>, <<>>), LAMBDA w : Len(w) > 0)

\* the words of the answer
AnswerWords == SelectSeq(split(answer(quote.text)), LAMBDA w : Len(w) > 0)

\* the lines the rows are made from
AnswerLines == BuildLines(answer(quote.text))

RECURSIVE Flatten(_)
Flatten(ss) == IF Len(ss) = 0 THEN <<>> ELSE ss[1] \o Flatten(Tail(ss))

\* the length of the first j words of a line with their separating Blocks
PrefixLen(ws, j) == Len(Flatten([k \in 1..j |-> ws[k]])) + (IF j > 0 THEN j - 1 ELSE 0)

ScenarioA == <<"A","B","C","D","E"," ","F","G">>
ScenarioARow == <<"#","#","A","B","C","D","E","#","F","G","#","#">>

\* C17: a word joins the current line iff current_length + (1 if the line is
\* non-empty) + len(word) <= GRID_COLS, otherwise it starts a new line; a line
\* of length L <= GRID_COLS occupies columns left_pad..left_pad+L-1 of its row,
\* left_pad = floor((GRID_COLS - L) / 2), every other cell a Block, so the
\* right padding is the left padding or one more; "ABCDE FG" gives the row
\* # # A B C D E # F G # #.
C17_WrapAndCenter ==
  pc = "built" =>
    /\ Len(rows) = Len(AnswerLines)
    /\ Flatten([i \in 1..Len(AnswerLines) |-> LineWords(AnswerLines[i])]) = AnswerWords
    /\ \A i \in 1..Len(AnswerLines) :
         LET ws == LineWords(AnswerLines[i])
         IN \A j \in 1..Len(ws) :
              IF j > 1
              THEN PrefixLen(ws, j - 1) + 1 + Len(ws[j]) <= GRID_COLS
              ELSE IF i > 1
              THEN Len(AnswerLines[i - 1])
                     + (IF Len(AnswerLines[i - 1]) > 0 THEN 1 ELSE 0)
                     + Len(ws[j]) > GRID_COLS
              ELSE Len(ws[j]) <= GRID_COLS
    /\ \A i \in 1..Len(AnswerLines) :
         LET L == Len(AnswerLines[i])
             left == (GRID_COLS - L) \div 2
             right == GRID_COLS - L - left
         IN L <= GRID_COLS =>
              /\ right \in {left, left + 1}
              /\ \A c \in 1..GRID_COLS :
                   rows[i][c] = IF c > left /\ c <= left + L
                                THEN AnswerLines[i][c - left]
                                ELSE "#"
    /\ quote.text = ScenarioA => rows = <<ScenarioARow>>

\* the layout of "ABCDE FG"
C17_Witness ==
  /\ pc = "built"
  /\ quote.text = ScenarioA
  /\ rows = <<ScenarioARow>>

(***************************************************************************)
(* generate_video: timing                                                  *)
(***************************************************************************)
\* generate_video got past the construction of the GameState and the timing
TimingKnown == video.pc \notin {"off", "start", "raised"}

\* floor(ms * 30 / 1000) = frames, for a duration of ms.n / ms.d milliseconds
IsFloorOfFrames(frames, ms) ==
  /\ frames * ms.d * 1000 <= ms.n * 30
  /\ ms.n * 30 < (frames + 1) * ms.d * 1000

\* C18: in exact arithmetic per_letter_time is 0 for N = 0 and
\* min((max_solve_time - pause_before_start) / N, max_time_per_letter)
\* otherwise; solve_duration = pause_before_start + N * per_letter_time lies
\* in [pause_before_start, max_solve_time]; N = 50 gives 0.12 s and 6.2 s;
\* each of the three frame counts is the floor of its own duration * 30.
C18_Timing ==
  TimingKnown =>
    LET tpl == video.time_per_letter
        sd == video.solve_duration
    IN /\ tpl.d > 0 /\ sd.d > 0
       /\ N = 0 => tpl.n = 0
       /\ N > 0 => IF 6800 <= 120 * N
                   THEN tpl.n * N = 6800 * tpl.d
                   ELSE tpl.n = 120 * tpl.d
       /\ sd.n * tpl.d = (200 * tpl.d + N * tpl.n) * sd.d
       /\ 200 * sd.d <= sd.n /\ sd.n <= 7000 * sd.d
       /\ tpl.n <= 120 * tpl.d
       /\ N = 50 => tpl.n = 120 * tpl.d /\ sd.n = 6200 * sd.d
       /\ IsFloorOfFrames(video.solve_frames, sd)
       /\ video.reveal_fade_frames = 30
       /\ IsFloorOfFrames(video.reveal_hold_frames,
                          [n |-> video.reveal_hold_duration, d |-> 1])
       /\ video.total_frames =
            video.solve_frames + video.reveal_fade_frames + video.reveal_hold_frames

\* Scenario D was generated to the end; and a run whose three durations sum
\* to 48.3 frames while the three floors sum to 47 exists as well
C18_Witness ==
  /\ video.pc = "done"
  /\ N = 50
  /\ video.solve_frames = 186
  /\ video.time_per_letter = [n |-> 120, d |-> 1]

C18_IndependentFloors ==
  /\ TimingKnown
  /\ N = 3
  /\ video.reveal_hold_duration = 50
  /\ video.total_frames = 47

(***************************************************************************)
(* generate_video: frames                                                  *)
(***************************************************************************)
\* all three loops of generate_video have ended
FramesComplete == video.pc \in {"encode", "cleanup", "done", "failed"}

\* C11: generate_video emits exactly solve_frames + reveal_fade_frames +
\* reveal_hold_frames frames, the frame indices 0..total-1 each written once
\* in increasing order, and the state rendered on the last placement-phase
\* frame and on every later frame has placed_count = N.
C11_FrameCoverage ==
  TimingKnown =>
    /\ \A k \in 1..Len(video.frames) :
         /\ video.frames[k].index = k - 1
         /\ k - 1 >= video.solve_frames - 1 => video.frames[k].placed = N
    /\ Len(video.frames) <=
         video.solve_frames + video.reveal_fade_frames + video.reveal_hold_frames
    /\ video.pc \in {"phase1", "phase2", "phase3", "encode"} =>
         video.png = { k - 1 : k \in 1..Len(video.frames) }
    /\ FramesComplete =>
         Len(video.frames) =
           video.solve_frames + video.reveal_fade_frames + video.reveal_hold_frames

\* a run of 65 letters (per_letter_time below its cap) with a hold phase
\* wrote all its 312 frames
C11_Witness ==
  /\ video.pc = "encode"
  /\ N = 65
  /\ Len(video.frames) = 312
  /\ video.frames[210].placed = 65
  /\ video.frames[209].placed < 65

\* t = floor((f / 30 - pause_before_start) / per_letter_time), in milliseconds
IsFloorOfElapsed(t, f, tpl) ==
  /\ t * tpl.n * 30 <= (f * 1000 - 200 * 30) * tpl.d
  /\ (f * 1000 - 200 * 30) * tpl.d < (t + 1) * tpl.n * 30

\* the target the timeline gives placement frame f
IsTargetOf(t, f) ==
  LET tpl == video.time_per_letter
  IN IF f = video.solve_frames - 1 THEN t = N
     ELSE IF f * 1000 > 200 * 30 /\ tpl.n > 0
     THEN \/ t = N /\ N * tpl.n * 30 <= (f * 1000 - 200 * 30) * tpl.d
          \/ t < N /\ IsFloorOfElapsed(t, f, tpl)
     ELSE t = 0

\* C12: on every placement-phase frame, after the driving loop, placed_count
\* equals the frame's target; the targets are non-decreasing in the frame
\* number and never above N; every placed letter was placed by a call of its
\* own, so the record of placed letters has one entry per letter.
C12_PlacedEqualsTarget ==
  TimingKnown =>
    /\ \A k \in 1..Len(video.frames) :
         video.frames[k].phase = "phase1" =>
           /\ IsTargetOf(video.frames[k].target, k - 1)
           /\ video.frames[k].placed = video.frames[k].target
           /\ video.frames[k].target <= N
           /\ k > 1 => video.frames[k - 1].target <= video.frames[k].target
    /\ Len(placed_supply_letters) = placed_count

\* the target of the final placement frame of 105 letters is two above the
\* one of the frame before it, and both letters were placed on that frame
C12_Witness ==
  /\ video.pc = "phase2"
  /\ N = 105
  /\ video.frames[video.solve_frames].target
       = video.frames[video.solve_frames - 1].target + 2
  /\ video.frames[video.solve_frames].placed
       = video.frames[video.solve_frames - 1].placed + 2
  /\ Len(used_supply_indices) = 105

\* a frame before the final one on which the driving loop placed one letter
C12_OneLetterFrame ==
  /\ video.pc = "phase1"
  /\ Len(video.frames) > 1
  /\ video.frames[Len(video.frames)].placed
       = video.frames[Len(video.frames) - 1].placed + 1
  /\ placed_count < N

\* C13: when generate_video has ended, by returning or by raising, tmp/frames
\* holds no frame PNG and tmp holds no WAV file of the run.
C13_ScratchRemoved ==
  video.pc \in {"done", "failed", "raised"} => video.png = {} /\ video.wav = {}

\* C20: once the GameState is built, rows, supply and letter_positions never
\* change; a placement frame changes at most placed_count,
\* used_supply_indices and placed_supply_letters; a reveal-fade or
\* reveal-hold frame, and the encode and cleanup steps, change none of the
\* GameState, so every frame after the placement phase is rendered from the
\* state of the last placement frame.
C20_LayoutReadOnly ==
  [][ /\ video.pc # "start" => UNCHANGED <<rows, supply, letter_positions>>
      /\ video.pc \in {"phase2", "phase3", "encode", "cleanup"} =>
           /\ UNCHANGED <<placed_count, used_supply_indices, placed_supply_letters>>
           /\ \A k \in 1..Len(video.frames') :
                k > video.solve_frames =>
                  /\ video.frames'[k].placed = video.frames'[video.solve_frames].placed
                  /\ video.frames'[k].drawn = video.frames'[video.solve_frames].drawn
    ]_vars

\* the hold phase is under way over a layout with letters, all of them placed
C20_Witness ==
  /\ video.pc = "phase3"
  /\ video.frame > 0
  /\ N > 0
  /\ placed_count = N
  /\ Len(used_supply_indices) = N
  /\ video.frames[Len(video.frames)].drawn # ""

(***************************************************************************)
(* QuoteLibrary                                                            *)
(***************************************************************************)
\* the text, author and source of a quote record
Content(q) == <<q.text, q.author, q.source>>

\* C15: over a non-empty quote list get_daily_quote returns, for a date with
\* days_since_epoch >= 0, the text/author/source of
\* quotes[(days_since_epoch + LIBRARY_OFFSET) mod quote_count], and for a date
\* before the epoch a preview quote with id 0 and the last quote's
\* text/author/source; the quote list is left as it was loaded.
C15_DailyLookup ==
  (lib.pc \in {"picked", "generating"} /\ Len(lib.file.data) > 0) =>
    LET days == lib.now.day - 1
        count == Len(lib.file.data)
    IN /\ lib.quotes = lib.file.data
       /\ IF days >= 0
          THEN Content(lib.result) = Content(lib.file.data[((days + 0) % count) + 1])
          ELSE /\ lib.result.id = 0
               /\ Content(lib.result) = Content(lib.file.data[count])

\* yesterday is day 3: over three distinct quotes the index wraps around to 0
C15_Witness ==
  /\ lib.pc = "picked"
  /\ Len(lib.quotes) = 3
  /\ lib.now.day = 4
  /\ lib.quotes[1] # lib.quotes[2] /\ lib.quotes[1] # lib.quotes[3]
  /\ lib.result.id = 1
  /\ Content(lib.result) = Content(lib.quotes[1])

\* the preview quote of a date before the epoch
C15_Preview ==
  /\ lib.pc = "picked"
  /\ Len(lib.quotes) = 2
  /\ lib.now.day < 1
  /\ lib.quotes[2] # lib.quotes[1]
  /\ lib.result.id = 0
  /\ Content(lib.result) = Content(lib.quotes[2])

\* C16: when quotes.json is missing or holds zero quotes the run ends in an
\* error telling the user to export the quotes, and no quote is handed to
\* the frame generation.
C16_SourceUnavailableFatal ==
  (~lib.file.exists \/ Len(lib.file.data) = 0) =>
    /\ lib.pc \notin {"picked", "generating"}
    /\ lib.pc = "failed" =>
         lib.error = "FileNotFoundError: Run 'npm run export-quotes' from Quotidian directory first."

(***************************************************************************)
(* generate_video: the pause before the first letter                       *)
(***************************************************************************)
\* the frames of the placement phase saved so far
PlacementFrames == { k \in 1..Len(video.frames) : video.frames[k].phase = "phase1" }

\* C21: no letter is placed on a placement-phase frame f with
\* f / 30 <= pause_before_start: placed_count is 0 on all such frames.  For
\* N = 0 the placement phase still has floor(0.2 * 30) = 6 frames, no frame
\* shows a placed letter, and a place_next_letter() call leaves the
\* GameState as it is.
C21_NothingPlacedInPause ==
  TimingKnown =>
    /\ \A k \in PlacementFrames :
         (k - 1) * 1000 <= 200 * 30 =>
           /\ video.frames[k].placed = 0
           /\ video.frames[k].drawn = ""
    /\ (video.pc = "phase1" /\ video.frame * 1000 <= 200 * 30) =>
         /\ placed_count = 0
         /\ used_supply_indices = <<>>
         /\ placed_supply_letters = <<>>
    /\ N = 0 =>
         /\ video.solve_frames = 6
         /\ \A k \in 1..Len(video.frames) : video.frames[k].placed = 0
         /\ placed_count = 0
         /\ used_supply_indices = <<>>
         /\ placed_supply_letters = <<>>
         /\ PlaceStep(Self).self = Self
         /\ video.pc # "phase1" => Cardinality(PlacementFrames) = 6

\* one letter: frames 0..6 lie within the pause and show nothing, the letter
\* appears on a later frame of the same phase
C21_Witness ==
  /\ video.pc = "phase2"
  /\ N = 1
  /\ video.solve_frames > 7
  /\ \A k \in 1..7 : video.frames[k].placed = 0
  /\ video.frames[video.solve_frames].placed = 1

\* the empty answer: six placement frames, nothing placed
C21_EmptyAnswer ==
  /\ video.pc = "phase2"
  /\ N = 0
  /\ Cardinality(PlacementFrames) = 6
  /\ placed_count = 0

====
